---- MODULE Spec2Model ----
(***************************************************************************)
(* A model of colorio's tristimulus hub (cs/_xyz.py), its spectral         *)
(* integrator and illuminant synthesizer (illuminants.py) and the          *)
(* Ebner-Fairchild hue-linearity dataset (data/ebner_fairchild).           *)
(***************************************************************************)
EXTENDS Integers, Sequences, FiniteSets, TLC

VARIABLES
    spaces,   \* the XYZ objects constructed so far
    ctor,     \* the latest constructor call: its class, argument, outcome
    x,        \* the array the caller starts from
    hist,     \* the caller's from_xyz100/to_xyz100 calls, oldest first
    loads,    \* how many times each data document has been opened and parsed
    illuminant, \* the spectrum the caller passes to the integrator
    observer, \* the observer the caller passes to the integrator
    out       \* the latest call into illuminants.py or a dataset: what it
              \* was given, what it computed, what it raised or returned

vars == <<spaces, ctor, x, hist, loads, illuminant, observer, out>>

(***************************************************************************)
(* Floating point.  numpy computes xyz / 100 and xyz * 100 in binary       *)
(* floating point: the exact quotient or product, rounded to the nearest   *)
(* representable number, ties to even.  The model keeps the arithmetic and *)
(* narrows the format: Prec significand bits and ExpRange + 1 binades.  A  *)
(* finite number is stored as the integer count of the smallest positive   *)
(* number of the format (the unit in the last place of the subnormals),    *)
(* so the representable magnitudes are m * 2^k with m < 2^Prec and         *)
(* k <= ExpRange, and those with k = 0, m < 2^(Prec-1) are the subnormals. *)
(***************************************************************************)
Prec == 5
ExpRange == 9

RECURSIVE Pow2(_)
Pow2(n) == IF n = 0 THEN 1 ELSE 2 * Pow2(n - 1)

Abs(n) == IF n < 0 THEN -n ELSE n

MaxFinite == (Pow2(Prec) - 1) * Pow2(ExpRange)
MinNormal == Pow2(Prec - 1)

Magnitudes == { m * Pow2(k) : m \in 0..(Pow2(Prec) - 1), k \in 0..ExpRange }

Fin(v) == [k |-> "fin", v |-> v]
Inf(s) == [k |-> "inf", v |-> s]

\* num / den (both positive) rounded to an integer, ties to the even one
RoundHalfEven(num, den) ==
    LET q == num \div den
        r == num % den
    IN  IF 2 * r < den THEN q
        ELSE IF 2 * r > den THEN q + 1
        ELSE IF q % 2 = 0 THEN q ELSE q + 1

\* the binade of num / den: the least k with num / den < 2^(k + Prec)
RECURSIVE Binade(_, _, _)
Binade(num, den, k) ==
    IF num < den * Pow2(k + Prec) THEN k ELSE Binade(num, den, k + 1)

\* the float nearest to sign * num / den (num >= 0, den > 0)
Round(sign, num, den) ==
    LET k == Binade(num, den, 0)
        v == RoundHalfEven(num, den * Pow2(k)) * Pow2(k)
    IN  IF v > MaxFinite THEN Inf(sign) ELSE Fin(sign * v)

Sign(v) == IF v < 0 THEN -1 ELSE 1

\* a / 100 as numpy computes it
TrueDivide100(a) ==
    IF a.k = "fin" THEN Round(Sign(a.v), Abs(a.v), 100) ELSE a

\* a * 100 as numpy computes it
Multiply100(a) ==
    IF a.k = "fin" THEN Round(Sign(a.v), Abs(a.v) * 100, 1) ELSE a

(***************************************************************************)
(* Arrays.  np.asarray(xyz) is one color, shape (3,), or a batch of n      *)
(* colors, shape (3, n); data holds the elements in row-major order.       *)
(***************************************************************************)
Array(shape, data) == [shape |-> shape, data |-> data]

\* a numpy ufunc with a scalar operand: applied to every element, same shape
Elementwise(op(_), a) == Array(a.shape, [i \in DOMAIN a.data |-> op(a.data[i])])

\* the (3, n) array whose columns are the colors of cols
Batch(cols) ==
    LET n == Len(cols)
    IN  Array(<<3, n>>, [i \in 1..(3 * n) |-> cols[((i - 1) % n) + 1][((i - 1) \div n) + 1]])

(***************************************************************************)
(* cs/_xyz.py                                                              *)
(***************************************************************************)
ColorioError == "ColorioError"
NoError == "None"

Object(name, scaling) == [name |-> name, scaling |-> scaling]

\* XYZ.__init__ without its check
XYZ_init_unchecked(name, scaling) ==
    [raised |-> NoError, self |-> {Object(name, scaling)}]

\* XYZ.__init__: the object is kept only when the check passes
XYZ_init(name, scaling) ==
    IF scaling \notin {1, 100}
    THEN [raised |-> ColorioError, self |-> {}]
    ELSE [raised |-> NoError, self |-> {Object(name, scaling)}]

XYZ1_init == XYZ_init("XYZ1", 1)

XYZ100_init == XYZ_init("XYZ100", 100)

\* from_xyz100 without the division
from_xyz100_unscaled(self, xyz) == xyz

from_xyz100(self, xyz) ==
    IF self.scaling = 100 THEN xyz ELSE Elementwise(TrueDivide100, xyz)

\* to_xyz100 with its test of the scaling inverted
to_xyz100_inverted(self, xyz) ==
    IF self.scaling = 100 THEN Elementwise(Multiply100, xyz) ELSE xyz

to_xyz100(self, xyz) ==
    IF self.scaling = 100 THEN xyz ELSE Elementwise(Multiply100, xyz)

(***************************************************************************)
(* Rationals, for the quantities of illuminants.py that the model keeps    *)
(* exact: num / den in lowest terms, den > 0.                              *)
(***************************************************************************)
RECURSIVE Gcd(_, _)
Gcd(a, b) == IF b = 0 THEN a ELSE Gcd(b, a % b)

Rat(num, den) ==
    LET g == Gcd(Abs(num), den)
    IN  [num |-> num \div g, den |-> den \div g]

\* a * b, cancelling across before multiplying
RatMul(a, b) ==
    LET g1 == Gcd(Abs(a.num), b.den)
        g2 == Gcd(Abs(b.num), a.den)
    IN  Rat((a.num \div g1) * (b.num \div g2), (a.den \div g2) * (b.den \div g1))

RatLeq(a, b) == a.num * b.den <= b.num * a.den

RatLt(a, b) == a.num * b.den < b.num * a.den

(***************************************************************************)
(* illuminants.py: the D series, F2, and the dataset's constructor.  What  *)
(* the model keeps of d is the temperature check, the choice of the        *)
(* chromaticity polynomial and the opening of d.json; the tabulated        *)
(* spectra themselves are data of the repository.                          *)
(***************************************************************************)
AssertionError == "AssertionError"

Documents == {"d.json", "f2.json", "ebner_fairchild.yaml"}

\* d, with the test of the first range made strict
d_strict(nominal_temperature) ==
    LET tcp == RatMul(Rat(14388, 14380), nominal_temperature)
    IN  IF RatLt(Rat(4000, 1), tcp) /\ RatLt(tcp, Rat(7000, 1))
        THEN [raised |-> NoError, tcp |-> tcp, xd |-> 1, opened |-> {"d.json"}]
        ELSE IF RatLt(Rat(7000, 1), tcp) /\ RatLeq(tcp, Rat(25000, 1))
        THEN [raised |-> NoError, tcp |-> tcp, xd |-> 2, opened |-> {"d.json"}]
        ELSE [raised |-> AssertionError, tcp |-> tcp, xd |-> 0, opened |-> {}]

\* d: xd names the polynomial that computed the chromaticity, 1 for the one
\* of [4000, 7000], 2 for the one of (7000, 25000]; the assertion fails
\* before the file is opened
d(nominal_temperature) ==
    LET tcp == RatMul(Rat(14388, 14380), nominal_temperature)
    IN  IF RatLeq(Rat(4000, 1), tcp) /\ RatLeq(tcp, Rat(7000, 1))
        THEN [raised |-> NoError, tcp |-> tcp, xd |-> 1, opened |-> {"d.json"}]
        ELSE IF RatLt(Rat(7000, 1), tcp) /\ RatLeq(tcp, Rat(25000, 1))
        THEN [raised |-> NoError, tcp |-> tcp, xd |-> 2, opened |-> {"d.json"}]
        ELSE [raised |-> AssertionError, tcp |-> tcp, xd |-> 0, opened |-> {}]

d50 == d(Rat(5000, 1))

d55 == d(Rat(5500, 1))

d65 == d(Rat(6500, 1))

d75 == d(Rat(7500, 1))

f2 == [raised |-> NoError, opened |-> {"f2.json"}]

EbnerFairchild_init == [raised |-> NoError, opened |-> {"ebner_fairchild.yaml"}]

(***************************************************************************)
(* illuminants.py: the integrator.  Wavelengths count quarter nanometres   *)
(* and the samples lie on even counts, so that the halving of the step     *)
(* sizes is exact; sample values are integers, and the callers pass the    *)
(* functions whose interpolated values are integers too, so that every     *)
(* float operation of the code is exact and the model computes it in       *)
(* integers.                                                               *)
(***************************************************************************)
nm(n) == 4 * n

Range(f) == { f[i] : i \in DOMAIN f }

Last(f) == f[Len(f)]

RECURSIVE Sum(_)
Sum(f) == IF f = <<>> THEN 0 ELSE f[1] + Sum(Tail(f))

Min(S) == CHOOSE m \in S : \A n \in S : m <= n

\* np.sort(np.unique(...)) of a set of numbers
RECURSIVE Sorted(_)
Sorted(S) == IF S = {} THEN <<>> ELSE <<Min(S)>> \o Sorted(S \ {Min(S)})

\* np.interp(v, xp, fp) at one point: linear between the samples, the first
\* or the last sample's value outside them
Interp(v, xp, fp) ==
    IF v <= xp[1] THEN fp[1]
    ELSE IF v >= Last(xp) THEN Last(fp)
    ELSE LET j == CHOOSE j \in 1..(Len(xp) - 1) : xp[j] <= v /\ v < xp[j + 1]
         IN  fp[j] + ((fp[j + 1] - fp[j]) * (v - xp[j])) \div (xp[j + 1] - xp[j])

\* the step sizes with the halving forgotten
StepSizes_unhalved(lmbda) ==
    LET n == Len(lmbda)
        diff == [i \in 1..(n - 1) |-> lmbda[i + 1] - lmbda[i]]
    IN  [i \in 1..n |-> (IF i >= 2 THEN diff[i - 1] ELSE 0) + (IF i <= n - 1 THEN diff[i] ELSE 0)]

\* the step sizes: delta = zeros; delta[1:] += diff; delta[:-1] += diff;
\* delta /= 2
StepSizes(lmbda) ==
    LET n == Len(lmbda)
        diff == [i \in 1..(n - 1) |-> lmbda[i + 1] - lmbda[i]]
        zeros == [i \in 1..n |-> 0]
        right == [i \in 1..n |-> IF i >= 2 THEN zeros[i] + diff[i - 1] ELSE zeros[i]]
        both == [i \in 1..n |-> IF i <= n - 1 THEN right[i] + diff[i] ELSE right[i]]
    IN  [i \in 1..n |-> both[i] \div 2]

\* np.dot(idata_o, idata_s * delta)
Dot(idata_o, idata_s, delta) ==
    [c \in DOMAIN idata_o |->
        Sum([i \in DOMAIN delta |-> idata_o[c][i] * (idata_s[i] * delta[i])])]

Failed(lmbda) ==
    [raised |-> AssertionError, lmbda |-> lmbda, idata_o |-> <<>>, idata_s |-> <<>>,
     delta |-> <<>>, ret |-> <<>>]

spectrum_to_xyz100(spectrum, obs) ==
    LET lambda_o == obs.lmbda
        data_o == obs.data
        lambda_s == spectrum.lmbda
        data_s == spectrum.data
        lmbda == Sorted(Range(lambda_o) \cup Range(lambda_s))
    IN  IF ~(lmbda[1] < nm(361)) THEN Failed(lmbda)
        ELSE IF ~(Last(lmbda) > nm(829)) THEN Failed(lmbda)
        ELSE LET idata_o == [c \in DOMAIN data_o |->
                                [i \in DOMAIN lmbda |-> Interp(lmbda[i], lambda_o, data_o[c])]]
                 idata_s == [i \in DOMAIN lmbda |-> Interp(lmbda[i], lambda_s, data_s)]
                 delta == StepSizes(lmbda)
                 values == Dot(idata_o, idata_s, delta)
             IN  [raised |-> NoError, lmbda |-> lmbda, idata_o |-> idata_o,
                  idata_s |-> idata_s, delta |-> delta,
                  ret |-> [c \in DOMAIN values |-> values[c] * 100]]

\* a / b in floating point, as far as the model follows it: the exact
\* quotient, nan for 0 / 0, an infinity for a / 0
Number(q) == [k |-> "number", q |-> q]
NotANumber == [k |-> "nan", q |-> Rat(0, 1)]
Infinity(s) == [k |-> "inf", q |-> Rat(s, 1)]

TrueDivide(a, b) ==
    IF b # 0 THEN Number(Rat(a * Sign(b), Abs(b)))
    ELSE IF a = 0 THEN NotANumber
    ELSE Infinity(Sign(a))

Multiply(a, n) == IF a.k = "number" THEN Number(RatMul(a.q, Rat(n, 1))) ELSE a

\* white_point: values /= values[1]; values *= 100 (values[1] is the second
\* component, the model's values[2])
white_point(spectrum, obs) ==
    LET xyz100 == spectrum_to_xyz100(spectrum, obs)
        values == xyz100.ret
    IN  IF xyz100.raised # NoError THEN [raised |-> xyz100.raised, values |-> <<>>, ret |-> <<>>]
        ELSE [raised |-> NoError, values |-> values,
              ret |-> [c \in DOMAIN values |-> Multiply(TrueDivide(values[c], values[2]), 100)]]

(***************************************************************************)
(* The callers of the color-space classes.                                 *)
(***************************************************************************)
MaxCalls == 3
MaxBatch == 2

ScalingArgs == {0, 1, 10, 99, 100, 101}

NoCall == [cls |-> "None", scaling |-> 0, raised |-> NoError, self |-> {}]

Construct(cls, scaling, made) ==
    /\ ctor' = [cls |-> cls, scaling |-> scaling, raised |-> made.raised, self |-> made.self]
    /\ spaces' = spaces \cup made.self
    /\ UNCHANGED <<x, hist, loads, illuminant, observer, out>>

NewXYZ(scaling) ==
    /\ Construct("XYZ", scaling, XYZ_init("XYZ", scaling))

NewXYZ1 ==
    /\ Construct("XYZ1", 1, XYZ1_init)

NewXYZ100 ==
    /\ Construct("XYZ100", 100, XYZ100_init)

\* the arrays the caller has at hand: its own, or the latest call's
\* argument and result
Args == IF hist = <<>> THEN {x} ELSE {hist[Len(hist)].arg, hist[Len(hist)].ret}

Call(method, self, arg, ret) ==
    /\ Len(hist) < MaxCalls
    /\ hist' = Append(hist, [method |-> method, self |-> self, arg |-> arg, ret |-> ret])
    /\ UNCHANGED <<spaces, ctor, x, loads, illuminant, observer, out>>

FromXyz100(self, arg) ==
    /\ Call("from_xyz100", self, arg, from_xyz100(self, arg))

ToXyz100(self, arg) ==
    /\ Call("to_xyz100", self, arg, to_xyz100(self, arg))

\* the caller's colors
Floats == { Fin(s * v) : s \in {-1, 1}, v \in Magnitudes }

Colors ==
    { <<Fin(0), Fin(0), Fin(0)>>,
      <<Fin(MaxFinite), Fin(100 * MinNormal), Fin(23)>>,
      <<Fin(3 * Pow2(ExpRange - 1)), Fin(-7), Fin(MinNormal)>> }

Singles == { Array(<<3>>, <<f, Fin(100 * MinNormal), Fin(0)>>) : f \in Floats }

Batches == UNION { { Batch(cols) : cols \in [1..n -> Colors] } : n \in 1..MaxBatch }

Inputs == Singles \cup Batches

SmallInputs == { Batch(<<c>>) : c \in Colors } \cup { Array(<<3>>, c) : c \in Colors }

(***************************************************************************)
(* The callers of illuminants.py and of the dataset.                       *)
(***************************************************************************)
MaxLoads == 2
MaxSamples == 3

Idle == [fn |-> "None", raised |-> NoError]

NoSpectrum == [lmbda |-> <<>>, data |-> <<>>]

\* a function of illuminants.py or a constructor that opens documents: what
\* it opened is counted, what it was given and what it made is kept
Opening(fn, given, made) ==
    /\ \A doc \in made.opened : loads[doc] < MaxLoads
    /\ loads' = [doc \in Documents |-> IF doc \in made.opened THEN loads[doc] + 1 ELSE loads[doc]]
    /\ out' = [fn |-> fn, given |-> given] @@ made
    /\ UNCHANGED <<spaces, ctor, x, hist, illuminant, observer>>

CallD(nominal_temperature) ==
    /\ Opening("d", nominal_temperature, d(nominal_temperature))

CallD50 ==
    /\ Opening("d50", Rat(5000, 1), d50)

CallD55 ==
    /\ Opening("d55", Rat(5500, 1), d55)

CallD65 ==
    /\ Opening("d65", Rat(6500, 1), d65)

CallD75 ==
    /\ Opening("d75", Rat(7500, 1), d75)

CallF2 ==
    /\ Opening("f2", Rat(0, 1), f2)

NewEbnerFairchild ==
    /\ Opening("EbnerFairchild", Rat(0, 1), EbnerFairchild_init)

\* the nominal temperatures the callers pass: whole kelvins, and the three
\* at which tcp is exactly 4000, 7000 and 25000
Temperatures ==
    { Rat(t, 1) : t \in {3000, 3997, 3998, 5000, 5500, 6500, 6996, 6997, 7500,
                         10000, 24986, 24987, 30000} }
        \cup { RatMul(Rat(t, 1), Rat(14380, 14388)) : t \in {4000, 7000, 25000} }

\* the integrator's calls leave the documents alone
Integrating(fn, made) ==
    /\ out' = [fn |-> fn] @@ made
    /\ UNCHANGED <<spaces, ctor, x, hist, loads, illuminant, observer>>

CallSpectrumToXyz100 ==
    /\ Integrating("spectrum_to_xyz100", spectrum_to_xyz100(illuminant, observer))

CallWhitePoint ==
    /\ Integrating("white_point", white_point(illuminant, observer))

\* the sample wavelengths the callers' functions are drawn from
Wavelengths ==
    {nm(300), nm(360), nm(360) + 2, nm(361), nm(600), nm(829), nm(829) + 2, nm(830)}

\* a sampled function has two samples at least
Grids == { Sorted(S) : S \in { T \in SUBSET Wavelengths : Cardinality(T) \in 2..MaxSamples } }

Flat(lmbda, v) == [i \in DOMAIN lmbda |-> v]

ByIndex(lmbda) == [i \in DOMAIN lmbda |-> i - 1]

Ramp(lmbda) == [i \in DOMAIN lmbda |-> (lmbda[i] - nm(300)) \div 2]

Spectra ==
    UNION { { [lmbda |-> g, data |-> Flat(g, 0)],
              [lmbda |-> g, data |-> Flat(g, 2)],
              [lmbda |-> g, data |-> ByIndex(g)] } : g \in Grids }

Observers ==
    UNION { { [lmbda |-> g, data |-> <<Flat(g, 1), Flat(g, 1), Flat(g, 1)>>],
              [lmbda |-> g, data |-> <<Ramp(g), Flat(g, 0), Flat(g, 2)>>],
              [lmbda |-> g, data |-> <<Flat(g, 2), Ramp(g), ByIndex(g)>>] } : g \in Grids }

\* every value np.interp computes for fp on the grid is an integer
ExactOn(lmbda, xp, fp) ==
    \A i \in DOMAIN lmbda :
        \A j \in 1..(Len(xp) - 1) :
            (xp[j] < lmbda[i] /\ lmbda[i] < xp[j + 1])
                => ((fp[j + 1] - fp[j]) * (lmbda[i] - xp[j])) % (xp[j + 1] - xp[j]) = 0

Exact(spectrum, obs) ==
    LET lmbda == Sorted(Range(obs.lmbda) \cup Range(spectrum.lmbda))
    IN  /\ ExactOn(lmbda, spectrum.lmbda, spectrum.data)
        /\ \A c \in DOMAIN obs.data : ExactOn(lmbda, obs.lmbda, obs.data[c])

IdleCS ==
    /\ spaces = {}
    /\ ctor = NoCall
    /\ x = Array(<<3>>, <<Fin(0), Fin(0), Fin(0)>>)
    /\ hist = <<>>

IdleIlluminants ==
    /\ loads = [doc \in Documents |-> 0]
    /\ illuminant = NoSpectrum
    /\ observer = NoSpectrum
    /\ out = Idle

InitIlluminants ==
    /\ IdleCS
    /\ IdleIlluminants

NextIlluminants ==
    \/ \E nominal_temperature \in Temperatures : CallD(nominal_temperature)
    \/ CallD50
    \/ CallD55
    \/ CallD65
    \/ CallD75
    \/ CallF2
    \/ NewEbnerFairchild

SpecIlluminants == InitIlluminants /\ [][NextIlluminants]_vars

InitIntegrator ==
    /\ IdleCS
    /\ loads = [doc \in Documents |-> 0]
    /\ out = Idle
    /\ illuminant \in Spectra
    /\ observer \in Observers
    /\ Exact(illuminant, observer)

NextIntegrator ==
    \/ CallSpectrumToXyz100
    \/ CallWhitePoint

SpecIntegrator == InitIntegrator /\ [][NextIntegrator]_vars

InitCS ==
    /\ spaces = XYZ1_init.self \cup XYZ100_init.self
    /\ ctor = [cls |-> "XYZ100", scaling |-> 100, raised |-> NoError, self |-> XYZ100_init.self]
    /\ x \in Inputs
    /\ hist = <<>>
    /\ IdleIlluminants

NextCS ==
    \E self \in spaces, arg \in Args :
        \/ FromXyz100(self, arg)
        \/ ToXyz100(self, arg)

SpecCS == InitCS /\ [][NextCS]_vars

InitCtor ==
    /\ spaces = {}
    /\ ctor = NoCall
    /\ x \in SmallInputs
    /\ hist = <<>>
    /\ IdleIlluminants

NextCtor ==
    \/ \E scaling \in ScalingArgs : NewXYZ(scaling)
    \/ NewXYZ1
    \/ NewXYZ100
    \/ \E self \in spaces, arg \in Args : FromXyz100(self, arg)
    \/ \E self \in spaces, arg \in Args : ToXyz100(self, arg)

SpecCtor == InitCtor /\ [][NextCtor]_vars

(***************************************************************************)
(* Claims about the tristimulus hub.                                       *)
(***************************************************************************)
\* the latest two calls are method1 then method2, on variants of scaling
\* s1 and s2, the second on the first's result (chained) or on the same
\* argument (not chained)
Window(method1, s1, method2, s2, chained) ==
    /\ Len(hist) >= 2
    /\ LET a == hist[Len(hist) - 1]
           b == hist[Len(hist)]
       IN  /\ a.method = method1 /\ a.self.scaling = s1
           /\ b.method = method2 /\ b.self.scaling = s2
           /\ b.arg = (IF chained THEN a.ret ELSE a.arg)

First == hist[Len(hist) - 1]
Second == hist[Len(hist)]

SameShape(a, b) == a.shape = b.shape /\ DOMAIN a.data = DOMAIN b.data

\* r equals t up to rounding: within 3 * 2^-Prec of t relatively, or, where
\* the quotient by 100 underflows, within 50 of the smallest subnormal
Close(r, t) == Abs(r - t) * Pow2(Prec) <= 3 * Abs(t) + 50 * Pow2(Prec)

\* every finite element of array b, times kb, is close to that of a, times
\* ka, and every infinite one is equal to that of a
AllClose(a, ka, b, kb) ==
    /\ SameShape(a, b)
    /\ \A i \in DOMAIN a.data :
           IF b.data[i].k = "fin"
           THEN /\ a.data[i].k = "fin"
                /\ Close(ka * a.data[i].v, kb * b.data[i].v)
           ELSE a.data[i] = b.data[i]

NoOverflow(a) == \A i \in DOMAIN a.data : a.data[i].k = "fin" /\ 100 * Abs(a.data[i].v) <= MaxFinite

\* C1, as claimed: for either scaling, to_xyz100(from_xyz100(x)) equals x,
\* with x's shape.
C1_RoundTripExact ==
    \A s \in {1, 100} :
        Window("from_xyz100", s, "to_xyz100", s, TRUE)
            => Second.ret = First.arg

\* C1, amended: the variant of scaling 100 returns x itself; the variant of
\* scaling 1 returns an array of x's shape whose elements equal x's up to the
\* rounding of the two float operations where x's are finite, and are x's
\* where they are infinite.
C1_RoundTripWithinRounding ==
    /\ Window("from_xyz100", 100, "to_xyz100", 100, TRUE) => Second.ret = First.arg
    /\ Window("from_xyz100", 1, "to_xyz100", 1, TRUE) => AllClose(Second.ret, 1, First.arg, 1)

\* C1's case: a batch of two colors went through the variant of scaling 1
\* and came back rounded
C1_Witness ==
    /\ Window("from_xyz100", 1, "to_xyz100", 1, TRUE)
    /\ First.arg.shape = <<3, 2>>
    /\ Second.ret # First.arg

\* C2: every XYZ object has scaling 1 or 100, whatever calls were made, and
\* a constructor call with another scaling raised ColorioError and left no
\* object.
C2_ScalingChecked ==
    /\ \A self \in spaces : self.scaling \in {1, 100}
    /\ (ctor.cls # "None" /\ ctor.scaling \notin {1, 100})
           => (ctor.raised = ColorioError /\ ctor.self = {})
    /\ (ctor.cls # "None" /\ ctor.scaling \in {1, 100})
           => (ctor.raised = NoError /\ ctor.self \subseteq spaces /\ ctor.self # {})

\* C2's case: a constructor call was refused after objects were made and used
C2_Witness ==
    /\ ctor.raised = ColorioError
    /\ ctor.scaling = 10
    /\ Cardinality(spaces) >= 2
    /\ Len(hist) = MaxCalls

\* C3, as claimed: XYZ100.from_xyz100(x) = 100 * XYZ1.from_xyz100(x), with
\* the product computed as numpy computes it.
C3_ScaleExact ==
    Window("from_xyz100", 1, "from_xyz100", 100, FALSE)
        => Second.ret = Elementwise(Multiply100, First.ret)

\* C3, amended: the variant of scaling 100 returns its argument; 100 times
\* XYZ1.from_xyz100(x) equals x up to rounding; XYZ1.to_xyz100(y), also
\* followed by XYZ100.from_xyz100, equals 100 times y up to rounding when
\* the product does not overflow; shapes are kept.
C3_ScaleWithinRounding ==
    /\ \A i \in 1..Len(hist) :
           /\ SameShape(hist[i].ret, hist[i].arg)
           /\ hist[i].self.scaling = 100 => hist[i].ret = hist[i].arg
    /\ Window("from_xyz100", 1, "from_xyz100", 100, FALSE)
           => AllClose(First.ret, 100, Second.ret, 1)
    /\ (Window("to_xyz100", 100, "to_xyz100", 1, FALSE) /\ NoOverflow(First.arg))
           => AllClose(Second.ret, 1, First.ret, 100)
    /\ (Window("to_xyz100", 1, "from_xyz100", 100, TRUE) /\ NoOverflow(First.arg))
           => AllClose(Second.ret, 1, First.arg, 100)

\* C3's case: both variants converted the same color and the rescaled
\* results differ by a rounding, at an element whose quotient is normal
C3_Witness ==
    /\ Window("from_xyz100", 1, "from_xyz100", 100, FALSE)
    /\ \E i \in DOMAIN First.ret.data :
           /\ Abs(First.ret.data[i].v) >= MinNormal
           /\ Multiply100(First.ret.data[i]) # Second.ret.data[i]

(***************************************************************************)
(* Claims about the integrator and the illuminants.                        *)
(***************************************************************************)
Returned(fn) == out.fn = fn /\ out.raised = NoError

\* C4, as claimed: spectrum_to_xyz100 returns exactly when the union of the
\* sample wavelengths reaches down to 360 nm and up to 830 nm, and fails
\* otherwise.
C4_DomainChecked ==
    out.fn = "spectrum_to_xyz100"
        => (out.raised = NoError
                <=> (out.lmbda[1] <= nm(360) /\ Last(out.lmbda) >= nm(830)))

\* C5: d computes tcp = T * 1.4388 / 1.4380, uses the first polynomial
\* exactly when 4000 <= tcp <= 7000, the second exactly when
\* 7000 < tcp <= 25000, and fails exactly when tcp is outside [4000, 25000],
\* before it opens anything; d50, d55, d65, d75 are d at 5000, 5500, 6500,
\* 7500 and do not fail.
C5_TemperatureRanges ==
    /\ out.fn \in {"d", "d50", "d55", "d65", "d75"} =>
           /\ out.tcp = RatMul(out.given, Rat(14388, 14380))
           /\ out.xd = 1 <=> (RatLeq(Rat(4000, 1), out.tcp) /\ RatLeq(out.tcp, Rat(7000, 1)))
           /\ out.xd = 2 <=> (RatLt(Rat(7000, 1), out.tcp) /\ RatLeq(out.tcp, Rat(25000, 1)))
           /\ out.raised = AssertionError
                  <=> (RatLt(out.tcp, Rat(4000, 1)) \/ RatLt(Rat(25000, 1), out.tcp))
           /\ out.raised = NoError <=> out.xd \in {1, 2}
           /\ out.raised = AssertionError => out.opened = {}
    /\ out.fn = "d50" => (out.given = Rat(5000, 1) /\ out.xd = 1)
    /\ out.fn = "d55" => (out.given = Rat(5500, 1) /\ out.xd = 1)
    /\ out.fn = "d65" => (out.given = Rat(6500, 1) /\ out.xd = 1)
    /\ out.fn = "d75" => (out.given = Rat(7500, 1) /\ out.xd = 2)

\* C5's case: d was called at the temperature whose tcp is exactly 7000 and
\* used the first polynomial
C5_Witness ==
    /\ out.fn = "d"
    /\ out.tcp = Rat(7000, 1)
    /\ out.xd = 1
    /\ loads["d.json"] > 0

\* C6, as claimed: no document is opened more than once.
C6_LoadedAtMostOnce == \A doc \in Documents : loads[doc] <= 1

\* C7, as claimed: white_point returns the integrator's vector rescaled by
\* one factor, with second component 100.
C7_LuminanceIs100 ==
    Returned("white_point") =>
        /\ out.ret[2] = Number(Rat(100, 1))
        /\ \A c \in DOMAIN out.ret :
               out.ret[c] = Number(RatMul(Rat(out.values[c], 1), Rat(100, out.values[2])))

\* C9: on the combined grid, sorted and without repeats, an inner point
\* weighs half the sum of its two spacings and an end point half its one
\* spacing, the weights add up to the span, and each channel is 100 times
\* the sum of observer value * illuminant value * weight.
C9_Weights ==
    Returned("spectrum_to_xyz100") =>
        LET lmbda == out.lmbda
            n == Len(lmbda)
            delta == out.delta
        IN  /\ n >= 2
            /\ Range(lmbda) = Range(illuminant.lmbda) \cup Range(observer.lmbda)
            /\ \A i \in 1..(n - 1) : lmbda[i] < lmbda[i + 1]
            /\ Len(delta) = n
            /\ 2 * delta[1] = lmbda[2] - lmbda[1]
            /\ 2 * delta[n] = lmbda[n] - lmbda[n - 1]
            /\ \A i \in 2..(n - 1) :
                   2 * delta[i] = (lmbda[i] - lmbda[i - 1]) + (lmbda[i + 1] - lmbda[i])
            /\ Sum(delta) = lmbda[n] - lmbda[1]
            /\ \A c \in 1..3 :
                   out.ret[c] =
                       100 * Sum([i \in 1..n |-> out.idata_o[c][i] * out.idata_s[i] * delta[i]])

\* C9's case: a grid with inner points at uneven spacings was integrated to
\* a luminance that is not 0
C9_Witness ==
    /\ Returned("spectrum_to_xyz100")
    /\ Len(out.lmbda) >= 4
    /\ \E i \in 2..(Len(out.lmbda) - 1) :
           out.lmbda[i] - out.lmbda[i - 1] # out.lmbda[i + 1] - out.lmbda[i]
    /\ out.ret[2] > 0

\* C10, as claimed: spectrum_to_xyz100 returns only when every wavelength of
\* the combined grid lies within the illuminant's own samples and within
\* the observer's own samples.
C10_NoExtrapolation ==
    Returned("spectrum_to_xyz100") =>
        \A i \in DOMAIN out.lmbda :
            /\ illuminant.lmbda[1] <= out.lmbda[i] /\ out.lmbda[i] <= Last(illuminant.lmbda)
            /\ observer.lmbda[1] <= out.lmbda[i] /\ out.lmbda[i] <= Last(observer.lmbda)

====
